---------------------------- MODULE Spec2Model ----------------------------
(***************************************************************************)
(* scripts/validate_min_versions_in_sync.py: the pre-commit check that the *)
(* minimum versions of the optional dependencies agree between the CI      *)
(* file, pandas/compat/_optional.py and setup.cfg.                         *)
(*                                                                         *)
(* Text is modelled as sequences of one-character strings, so that strip,  *)
(* split, casefold, slicing and the `in` test are computed as Python       *)
(* computes them.  A dict is a function from keys to values; the one dict  *)
(* whose insertion order the code depends on (_optional.VERSIONS, read by  *)
(* a comprehension in which later keys overwrite earlier ones) is a        *)
(* sequence of <<key, value>> pairs with distinct keys.                    *)
(***************************************************************************)
EXTENDS Integers, Sequences, FiniteSets, Bags, TLC

VARIABLES
    pc,                 \* where main() is: "ci", "code", "setup", "compare", "exit"
    VERSIONS,           \* _optional.VERSIONS, the module-level table
    n,                  \* number of lines of the CI file consumed by the loop
    line,               \* get_versions_from_ci: the loop variable
    seen_required,      \* get_versions_from_ci: local flag
    seen_optional,      \* get_versions_from_ci: local flag
    required_deps,      \* get_versions_from_ci: first returned dict
    optional_deps,      \* get_versions_from_ci: second returned dict (main's ci_optional)
    code_optional,      \* main: result of get_versions_from_code()
    all_value,          \* get_versions_from_setup: parser[...]["all"] as read
    test_value,         \* get_versions_from_setup: parser[...]["test"] as read
    setup_optional,     \* main: result of get_versions_from_setup()
    diff,               \* main: the difference set
    out,                \* what was written to sys.stdout: a bag of blocks
    raised,             \* the unhandled exception that ended the run, or "none"
    status              \* the argument of the sys.exit call reached, -1 if none was

vars == <<pc, VERSIONS, n, line, seen_required, seen_optional, required_deps,
          optional_deps, code_optional, all_value, test_value,
          setup_optional, diff, out, raised, status>>

(***************************************************************************)
(* Bounds of the model.                                                    *)
(***************************************************************************)
MaxLines == 3

(***************************************************************************)
(* Python text operations.                                                 *)
(***************************************************************************)
UPPER == <<"A","B","C","D","E","F","G","H","I","J","K","L","M","N","O","P","Q","R","S","T","U","V","W","X","Y","Z">>
LOWER == <<"a","b","c","d","e","f","g","h","i","j","k","l","m","n","o","p","q","r","s","t","u","v","w","x","y","z">>

Whitespace == {" ", "\n", "\t"}

SetMin(S) == CHOOSE x \in S : \A y \in S : x <= y
SetMax(S) == CHOOSE x \in S : \A y \in S : x >= y

\* s[i:] starts with sub (1-based i)
StartsAt(s, sub, i) ==
    /\ i + Len(sub) - 1 <= Len(s)
    /\ \A j \in 1..Len(sub) : s[i + j - 1] = sub[j]

\* Python: sub in s
Contains(s, sub) == \E i \in 1..(Len(s) - Len(sub) + 1) : StartsAt(s, sub, i)

\* Python: s.strip()
strip(s) ==
    LET keep == {i \in 1..Len(s) : s[i] \notin Whitespace}
    IN  IF keep = {} THEN <<>> ELSE SubSeq(s, SetMin(keep), SetMax(keep))

\* Python: s.split(sep), the list of the parts between the occurrences of sep,
\* found left to right without overlap
RECURSIVE split(_, _)
split(s, sep) ==
    LET hits == {i \in 1..(Len(s) - Len(sep) + 1) : StartsAt(s, sep, i)}
    IN  IF hits = {} THEN <<s>>
        ELSE LET i == SetMin(hits)
             IN  <<SubSeq(s, 1, i - 1)>> \o split(SubSeq(s, i + Len(sep), Len(s)), sep)

casefoldChar(c) ==
    IF \E i \in 1..Len(UPPER) : UPPER[i] = c
    THEN LOWER[CHOOSE i \in 1..Len(UPPER) : UPPER[i] = c]
    ELSE c

\* Python: s.casefold()
casefold(s) == [i \in 1..Len(s) |-> casefoldChar(s[i])]

(***************************************************************************)
(* Python dict operations.                                                 *)
(***************************************************************************)
EmptyDict == [k \in {} |-> <<>>]

\* d[k] = v
Put(d, k, v) == [x \in (DOMAIN d) \cup {k} |-> IF x = k THEN v ELSE d[x]]

\* d.get(k, default)
Get(d, k, default) == IF k \in DOMAIN d THEN d[k] ELSE default

\* d.items()
Items(d) == {<<k, d[k]>> : k \in DOMAIN d}

\* d with the key k removed
Without(d, k) == [x \in (DOMAIN d) \ {k} |-> d[x]]

\* the keys of an ordered table (a sequence of <<key, value>> pairs)
Keys(t) == {t[i][1] : i \in 1..Len(t)}

\* an ordered table without the key k
RECURSIVE TableWithout(_, _)
TableWithout(t, k) ==
    IF t = <<>> THEN <<>>
    ELSE IF Head(t)[1] = k THEN TableWithout(Tail(t), k)
    ELSE <<Head(t)>> \o TableWithout(Tail(t), k)

(***************************************************************************)
(* Literals of the script.                                                 *)
(***************************************************************************)
REQUIRED_MARKER == <<"#"," ","r","e","q","u","i","r","e","d"," ","d","e","p","e","n","d","e","n","c","i","e","s">>
OPTIONAL_MARKER == <<"#"," ","o","p","t","i","o","n","a","l"," ","d","e","p","e","n","d","e","n","c","i","e","s">>
PIP_MARKER == <<"-"," ","p","i","p",":">>
TZDATA == <<"t","z","d","a","t","a">>
PYTEST == <<"p","y","t","e","s","t">>
NOT_SPECIFIED == <<"N","o","t"," ","s","p","e","c","i","f","i","e","d">>
EXCLUDE_DEPS == {TZDATA}
EQ == <<"=">>
EQEQ == <<"=","=">>
GE == <<">","=">>

(***************************************************************************)
(* Package names and versions the inputs are written with.                 *)
(***************************************************************************)
scipy == <<"s","c","i","p","y">>
SciPy == <<"S","c","i","P","y">>
odf == <<"o","d","f">>
Odf == <<"O","d","f">>
odfpy == <<"o","d","f","p","y">>
TzData == <<"T","z","D","a","t","a">>
V1 == <<"1">>
V2 == <<"2">>

\* _optional.INSTALL_MAPPING: import name -> distribution name
INSTALL_MAPPING == (odf :> odfpy)

(***************************************************************************)
(* The inputs: the lines of the CI file, the tables _optional.VERSIONS may *)
(* hold at import, and the "all" and "test" values of setup.cfg.           *)
(***************************************************************************)
NL == <<"\n">>

\* a list item of the CI file: "  - <name><op><version>\n"
CiDep(name, op, version) == <<" ", " ", "-", " ">> \o name \o op \o version \o NL

CiLines ==
    { <<" ", " ">> \o REQUIRED_MARKER \o NL,
      <<" ", " ">> \o OPTIONAL_MARKER \o NL,
      <<" ", " ">> \o PIP_MARKER \o NL,
      NL,
      CiDep(scipy, EQ, V1),
      CiDep(SciPy, EQEQ, V2),
      CiDep(TZDATA, EQ, V1),
      CiDep(TzData, EQ, V1),
      CiDep(odf, EQ, V1),
      CiDep(odfpy, EQ, V1),
      CiDep(scipy, GE, V1),
      CiDep(scipy, <<>>, <<>>),
      CiDep(scipy, EQ, V1 \o EQ \o V2),
      CiDep(scipy, EQEQ, V1 \o EQ \o V2) }

CodeEntries ==
    { <<scipy, V1>>, <<scipy, V2>>, <<SciPy, V1>>, <<odf, V1>>, <<Odf, V1>>,
      <<odfpy, V1>>, <<PYTEST, V1>>, <<TzData, V1>> }

\* with and without the excluded package; one further entry, or two whose
\* keys the comprehension of get_versions_from_code maps to one key
VersionTables ==
    { head \o body :
        head \in {<<>>, << <<TZDATA, V1>> >>},
        body \in {<<>>} \cup { <<e>> : e \in CodeEntries }
                 \cup { << <<odf, V1>>, <<odfpy, V2>> >> } }

\* an entry of an extras list: "<name>>=<version>"
Req(name, version) == name \o GE \o version

SetupEntries ==
    { Req(scipy, V1), Req(scipy, V2), Req(SciPy, V1), Req(odf, V1),
      Req(odfpy, V1), Req(PYTEST, V1), Req(PYTEST, V2), Req(TzData, V1),
      scipy \o EQEQ \o V1 }

\* configparser's value of a list written on the lines after its key: each
\* entry preceded by a line break
RECURSIVE Value(_)
Value(entries) ==
    IF entries = <<>> THEN <<>> ELSE NL \o Head(entries) \o Value(Tail(entries))

AllValues ==
    { Value(head \o body) :
        head \in {<<>>, <<Req(TZDATA, V1)>>},
        body \in {<<>>} \cup { <<e>> : e \in SetupEntries } }

TestValues == { Value(<<Req(PYTEST, V1)>>), Value(<<Req(PYTEST, V1), Req(scipy, V1)>>) }

(***************************************************************************)
(* get_versions_from_ci, one iteration of its loop at a time.              *)
(***************************************************************************)
\* a faulty variant of line 65 that forgets the seen_required flag
InDependencyModeAnywhere(seenRequired, l) == strip(l) # <<>>

\* line 65: the line is read as a dependency declaration
InDependencyMode(seenRequired, l) == seenRequired /\ strip(l) # <<>>

\* a faulty variant of lines 66-70 that always splits on "="
SplitLineSingle(l) == split(strip(l), EQ)

\* lines 66-70: split on "==" if the line has one, else on "="
SplitLine(l) ==
    IF Contains(l, EQEQ) THEN split(strip(l), EQEQ) ELSE split(strip(l), EQ)

\* line 71: package[2:]
PackageOf(parts) == SubSeq(parts[1], 3, Len(parts[1]))

\* line 72
CiExcluded(package) == package \in EXCLUDE_DEPS

\* lines 75, 77: the key an entry is stored under
CiKey(package) == casefold(package)

\* line 74: the dict the entry goes to
IntoRequired(seenOptional) == ~seenOptional

\* the iteration for line l from the locals loc; "raised" names the exception
\* of an unpacking that does not find two parts
CiStep(loc, l) ==
    IF Contains(l, REQUIRED_MARKER) THEN [loc EXCEPT !.seen_required = TRUE]
    ELSE IF Contains(l, OPTIONAL_MARKER) THEN [loc EXCEPT !.seen_optional = TRUE]
    ELSE IF Contains(l, PIP_MARKER) THEN loc
    ELSE IF InDependencyMode(loc.seen_required, l) THEN
        LET parts == SplitLine(l)
        IN  IF Len(parts) # 2 THEN [loc EXCEPT !.raised = "ValueError"]
            ELSE LET package == PackageOf(parts)
                     version == parts[2]
                 IN  IF CiExcluded(package) THEN loc
                     ELSE IF IntoRequired(loc.seen_optional)
                     THEN [loc EXCEPT !.required_deps = Put(@, CiKey(package), version)]
                     ELSE [loc EXCEPT !.optional_deps = Put(@, CiKey(package), version)]
    ELSE loc

CiLocals ==
    [seen_required |-> seen_required, seen_optional |-> seen_optional,
     required_deps |-> required_deps, optional_deps |-> optional_deps,
     raised |-> "none"]

\* an unhandled exception ends the run: nothing more is written to stdout and
\* neither sys.exit call of main is reached
Raise(exc) == raised' = exc /\ pc' = "exit" /\ UNCHANGED status

ReadLine(l) ==
    /\ pc = "ci"
    /\ n < MaxLines
    /\ n' = n + 1
    /\ line' = l
    /\ LET loc == CiStep(CiLocals, l)
       IN  /\ seen_required' = loc.seen_required
           /\ seen_optional' = loc.seen_optional
           /\ required_deps' = loc.required_deps
           /\ optional_deps' = loc.optional_deps
           /\ IF loc.raised # "none" THEN Raise(loc.raised)
              ELSE UNCHANGED <<pc, raised, status>>
    /\ UNCHANGED <<VERSIONS, code_optional, all_value, test_value, setup_optional,
                   diff, out>>

\* line 78: the end of the file; the locals other than the two dicts are gone
CiReturn ==
    /\ pc = "ci"
    /\ pc' = "code"
    /\ n' = 0
    /\ line' = <<>>
    /\ seen_required' = FALSE
    /\ seen_optional' = FALSE
    /\ UNCHANGED <<VERSIONS, required_deps, optional_deps, code_optional, all_value,
                   test_value, setup_optional, diff, out, raised, status>>

(***************************************************************************)
(* get_versions_from_code                                                  *)
(***************************************************************************)
\* a faulty variant of line 46 that forgets the alias mapping
CodeKeyNoAlias(k) == casefold(k)

\* line 46: the key an entry of the table is stored under
CodeKey(k) == casefold(Get(INSTALL_MAPPING, k, k))

\* a faulty variant of lines 43-44: versions.pop(item, None)
PopExcludedDefault(versions) ==
    [raised |-> "none", versions |-> TableWithout(versions, TZDATA)]

\* lines 43-44: versions.pop(item) for the items of EXCLUDE_DEPS, on the
\* module's own table; "raised" when an item is no key of it
PopExcluded(versions) ==
    IF EXCLUDE_DEPS \subseteq Keys(versions)
    THEN [raised |-> "none", versions |-> TableWithout(versions, TZDATA)]
    ELSE [raised |-> "KeyError", versions |-> versions]

\* lines 45-49: the comprehension, in the table's order
RECURSIVE CodeDict(_, _)
CodeDict(t, acc) ==
    IF t = <<>> THEN acc
    ELSE LET k == Head(t)[1]
             v == Head(t)[2]
         IN  CodeDict(Tail(t), IF k # PYTEST THEN Put(acc, CodeKey(k), v) ELSE acc)

\* the call: the exception or the dict returned, and the table left behind
get_versions_from_code(versions) ==
    LET popped == PopExcluded(versions)
    IN  [raised |-> popped.raised,
         versions |-> popped.versions,
         result |-> IF popped.raised = "none" THEN CodeDict(popped.versions, EmptyDict)
                    ELSE EmptyDict]

GetVersionsFromCode ==
    /\ pc = "code"
    /\ LET r == get_versions_from_code(VERSIONS)
       IN  /\ VERSIONS' = r.versions
           /\ code_optional' = r.result
           /\ IF r.raised # "none" THEN Raise(r.raised)
              ELSE pc' = "setup" /\ UNCHANGED <<raised, status>>
    /\ UNCHANGED <<n, line, seen_required, seen_optional, required_deps, optional_deps,
                   all_value, test_value, setup_optional, diff, out>>

(***************************************************************************)
(* get_versions_from_setup                                                 *)
(***************************************************************************)
\* lines 88, 92: value[1:].split("\n")
EntriesOf(value) == split(SubSeq(value, 2, Len(value)), NL)

\* a faulty variant of lines 93-95 that removes nothing
RemoveTestNone(dependencies, test) == dependencies

\* lines 93-95: the entries of "all" that are no entry of "test"
RemoveTest(dependencies, test) ==
    SelectSeq(dependencies, LAMBDA package : package \notin test)

\* line 99: the key an entry of the manifest is stored under
SetupKey(package) == casefold(Get(INSTALL_MAPPING, package, package))

\* lines 97-99: the loop; "raised" names the exception of an unpacking that
\* does not find two parts
RECURSIVE SetupDict(_, _)
SetupDict(dependencies, acc) ==
    IF dependencies = <<>> THEN [raised |-> "none", result |-> acc]
    ELSE LET parts == split(strip(Head(dependencies)), GE)
         IN  IF Len(parts) # 2 THEN [raised |-> "ValueError", result |-> acc]
             ELSE SetupDict(Tail(dependencies), Put(acc, SetupKey(parts[1]), parts[2]))

\* lines 101-102: optional_dependencies.pop(item) for the items of EXCLUDE_DEPS
PopSetup(d) ==
    IF EXCLUDE_DEPS \subseteq DOMAIN d
    THEN [raised |-> "none", result |-> Without(d, TZDATA)]
    ELSE [raised |-> "KeyError", result |-> d]

get_versions_from_setup(allValue, testValue) ==
    LET test == {EntriesOf(testValue)[i] : i \in 1..Len(EntriesOf(testValue))}
        built == SetupDict(RemoveTest(EntriesOf(allValue), test), EmptyDict)
    IN  IF built.raised # "none" THEN [raised |-> built.raised, result |-> EmptyDict]
        ELSE LET popped == PopSetup(built.result)
             IN  IF popped.raised # "none"
                 THEN [raised |-> popped.raised, result |-> EmptyDict]
                 ELSE popped

GetVersionsFromSetup(allValue, testValue) ==
    /\ pc = "setup"
    /\ all_value' = allValue
    /\ test_value' = testValue
    /\ LET r == get_versions_from_setup(allValue, testValue)
       IN  /\ setup_optional' = r.result
           /\ IF r.raised # "none" THEN Raise(r.raised)
              ELSE pc' = "compare" /\ UNCHANGED <<raised, status>>
    /\ UNCHANGED <<VERSIONS, n, line, seen_required, seen_optional, required_deps,
                   optional_deps, code_optional, diff, out>>

(***************************************************************************)
(* main: the comparison and the report                                     *)
(***************************************************************************)
\* a faulty variant of lines 113-115 whose intersection leaves out the manifest
DiffTwoWay(ci, code, setup) ==
    (Items(ci) \cup Items(code) \cup Items(setup)) \ (Items(ci) \cap Items(code))

\* lines 113-115
Diff(ci, code, setup) ==
    (Items(ci) \cup Items(code) \cup Items(setup))
        \ (Items(ci) \cap Items(code) \cap Items(setup))

\* line 118
Packages(d) == {p[1] : p \in d}

\* lines 127-132: what is written for one package
Block(package, ci, code, setup) ==
    [kind |-> "block",
     package |-> package,
     ci |-> Get(ci, package, NOT_SPECIFIED),
     code |-> Get(code, package, NOT_SPECIFIED),
     setup |-> Get(setup, package, NOT_SPECIFIED)]

\* lines 120-124: the heading
Heading ==
    [kind |-> "heading", package |-> <<>>, ci |-> <<>>, code |-> <<>>, setup |-> <<>>]

\* a faulty variant of lines 126-132 that loops over the pairs of the
\* difference instead of its package names
RECURSIVE BlocksPerPair(_, _, _, _)
BlocksPerPair(d, ci, code, setup) ==
    IF d = {} THEN EmptyBag
    ELSE LET p == CHOOSE x \in d : TRUE
         IN  SetToBag({Block(p[1], ci, code, setup)})
                 (+) BlocksPerPair(d \ {p}, ci, code, setup)

ReportPerPair(d, ci, code, setup) ==
    SetToBag({Heading}) (+) BlocksPerPair(d, ci, code, setup)

\* lines 119-132: everything written, each write counted
Report(d, ci, code, setup) ==
    SetToBag({Heading})
        (+) SetToBag({Block(package, ci, code, setup) : package \in Packages(d)})

\* lines 113-133
ReportAndExit ==
    /\ pc = "compare"
    /\ Diff(optional_deps, code_optional, setup_optional) # {}
    /\ diff' = Diff(optional_deps, code_optional, setup_optional)
    /\ out' = out (+) Report(diff', optional_deps, code_optional, setup_optional)
    /\ status' = 1
    /\ pc' = "exit"
    /\ UNCHANGED <<VERSIONS, n, line, seen_required, seen_optional, required_deps,
                   optional_deps, code_optional, all_value, test_value,
                   setup_optional, raised>>

\* lines 113-117, 134
ExitInSync ==
    /\ pc = "compare"
    /\ Diff(optional_deps, code_optional, setup_optional) = {}
    /\ diff' = {}
    /\ status' = 0
    /\ pc' = "exit"
    /\ UNCHANGED <<VERSIONS, n, line, seen_required, seen_optional, required_deps,
                   optional_deps, code_optional, all_value, test_value,
                   setup_optional, out, raised>>

(***************************************************************************)
(* The run of the script.                                                  *)
(***************************************************************************)
Init ==
    /\ pc = "ci"
    /\ VERSIONS \in VersionTables
    /\ n = 0
    /\ line = <<>>
    /\ seen_required = FALSE
    /\ seen_optional = FALSE
    /\ required_deps = EmptyDict
    /\ optional_deps = EmptyDict
    /\ code_optional = EmptyDict
    /\ all_value = <<>>
    /\ test_value = <<>>
    /\ setup_optional = EmptyDict
    /\ diff = {}
    /\ out = EmptyBag
    /\ raised = "none"
    /\ status = -1

Next ==
    \/ \E l \in CiLines : ReadLine(l)
    \/ CiReturn
    \/ GetVersionsFromCode
    \/ \E a \in AllValues, t \in TestValues : GetVersionsFromSetup(a, t)
    \/ ReportAndExit
    \/ ExitInSync

Spec == Init /\ [][Next]_vars


(***************************************************************************)
(* Vocabulary of the properties.                                           *)
(***************************************************************************)
\* main reached one of its two sys.exit calls
Compared == pc = "exit" /\ raised = "none"

\* get_versions_from_setup has returned a dict
SetupReturned == pc = "compare" \/ Compared

\* the step is one iteration of the loop of get_versions_from_ci
ReadStep == pc = "ci" /\ n' = n + 1

IsMarkerOrPip(l) ==
    \/ Contains(l, REQUIRED_MARKER)
    \/ Contains(l, OPTIONAL_MARKER)
    \/ Contains(l, PIP_MARKER)

\* the number of times sep occurs in s, counted from the left without overlap
RECURSIVE Occurrences(_, _)
Occurrences(s, sep) ==
    IF Len(s) < Len(sep) THEN 0
    ELSE IF StartsAt(s, sep, 1)
         THEN 1 + Occurrences(SubSeq(s, Len(sep) + 1, Len(s)), sep)
         ELSE Occurrences(Tail(s), sep)

\* the delimiter the line is split on, and how often it occurs
DelimiterOf(l) == IF Contains(l, EQEQ) THEN EQEQ ELSE EQ
DelimiterCount(l) == Occurrences(strip(l), DelimiterOf(l))

\* the name and the version a line with one delimiter declares
FirstAt(s, sep) == SetMin({i \in 1..Len(s) : StartsAt(s, sep, i)})
DeclaredName(l) == SubSeq(strip(l), 3, FirstAt(strip(l), DelimiterOf(l)) - 1)
DeclaredVersion(l) ==
    SubSeq(strip(l), FirstAt(strip(l), DelimiterOf(l)) + Len(DelimiterOf(l)),
           Len(strip(l)))

\* a non-blank, non-pip, non-excluded dependency line
DependencyLine(l) ==
    /\ ~IsMarkerOrPip(l)
    /\ strip(l) # <<>>
    /\ DelimiterCount(l) = 1
    /\ DeclaredName(l) \notin EXCLUDE_DEPS

\* the step records the declaration of l in the dict d
Recorded(d, dNext, l) ==
    dNext = [k \in (DOMAIN d) \cup {casefold(DeclaredName(l))} |->
                IF k = casefold(DeclaredName(l)) THEN DeclaredVersion(l) ELSE d[k]]

\* "- name==version" or "- name=version": one delimiter, between a name and
\* a version free of operator characters
OperatorChars == {"=", ">", "<", "!", "~"}
HasForm(l) ==
    LET s == strip(l)
    IN  /\ Len(s) > 2
        /\ s[1] = "-"
        /\ s[2] = " "
        /\ \E i \in 4..Len(s), w \in {1, 2} :
              /\ i + w <= Len(s)
              /\ \A j \in 3..Len(s) :
                    (s[j] \in OperatorChars) <=> (j >= i /\ j < i + w /\ s[j] = "=")

\* what the table and the manifest declare: <<name, version>> as written
CodeDecls == {e \in {VERSIONS[i] : i \in 1..Len(VERSIONS)} : e[1] # PYTEST}
AllEntries == {EntriesOf(all_value)[i] : i \in 1..Len(EntriesOf(all_value))}
TestEntries == {EntriesOf(test_value)[i] : i \in 1..Len(EntriesOf(test_value))}
KeptEntries == AllEntries \ TestEntries
EntryName(e) == SubSeq(strip(e), 1, FirstAt(strip(e), GE) - 1)
EntryVersion(e) == SubSeq(strip(e), FirstAt(strip(e), GE) + 2, Len(strip(e)))
EntryKey(e) == casefold(Get(INSTALL_MAPPING, EntryName(e), EntryName(e)))
SetupDecls == {<<EntryName(e), EntryVersion(e)>> : e \in KeptEntries}

\* the spellings of one package: an import name of the alias mapping and its
\* distribution name, case-folded
Family(i) == {casefold(i), casefold(INSTALL_MAPPING[i])}
InFamily(decls, i) == {c \in decls : casefold(c[1]) \in Family(i)}
Versions == {V1, V2}

(***************************************************************************)
(* C1                                                                      *)
(***************************************************************************)
\* C1: once main has compared the three mappings, the difference set is the
\* set of the (name, version) pairs of the three mappings that are not in all
\* three, main exits 1 exactly when that set is non-empty, which is exactly
\* when the three mappings are not identical, and exits 0 otherwise.
C1_DiffAndExitStatus ==
    Compared =>
        LET ci == Items(optional_deps)
            code == Items(code_optional)
            setup == Items(setup_optional)
        IN  /\ diff = {p \in ci \cup code \cup setup :
                            ~(p \in ci /\ p \in code /\ p \in setup)}
            /\ (status = 1 <=> diff # {})
            /\ (status = 0 <=> diff = {})
            /\ (diff = {} <=>
                    (optional_deps = code_optional /\ code_optional = setup_optional))

\* a run that exits 1 over a pair two of the mappings hold and the third lacks
C1_Witness ==
    /\ Compared
    /\ status = 1
    /\ \E p \in diff : /\ p \in Items(optional_deps) \cap Items(code_optional)
                       /\ p \notin Items(setup_optional)

(***************************************************************************)
(* C2                                                                      *)
(***************************************************************************)
\* C2: whenever main exits 1, the report holds exactly one block for every
\* package name of the difference set, written once, and no block for any
\* other package; the block shows for each source the version its mapping
\* holds for the name, or 'Not specified' when it holds none.
C2_ReportOneBlockPerPackage ==
    (pc = "exit" /\ status = 1) =>
        LET names == {p[1] : p \in diff}
            blocks == {b \in BagToSet(out) : b.kind = "block"}
            shown(d, name) == IF name \in DOMAIN d THEN d[name] ELSE NOT_SPECIFIED
        IN  /\ \A name \in names :
                  /\ Cardinality({b \in blocks : b.package = name}) = 1
                  /\ \A b \in blocks :
                        b.package = name =>
                            /\ CopiesIn(b, out) = 1
                            /\ b.ci = shown(optional_deps, name)
                            /\ b.code = shown(code_optional, name)
                            /\ b.setup = shown(setup_optional, name)
            /\ \A b \in blocks : b.package \in names

\* a report of two packages, one of them missing from the CI file
C2_Witness ==
    /\ pc = "exit"
    /\ status = 1
    /\ Cardinality({p[1] : p \in diff}) >= 2
    /\ \E b \in BagToSet(out) :
          b.kind = "block" /\ b.ci = NOT_SPECIFIED /\ b.setup # NOT_SPECIFIED

(***************************************************************************)
(* C3                                                                      *)
(***************************************************************************)
\* C3: whenever the CI file (in its required or its optional section), the
\* table and the manifest declare the same version for every non-excluded
\* package, main exits 0 and prints nothing.
C3_AgreeingSourcesExitZero ==
    (/\ Compared
     /\ Items(required_deps) \cup Items(optional_deps) = Items(code_optional)
     /\ Items(code_optional) = Items(setup_optional))
        => (status = 0 /\ out = EmptyBag)

(***************************************************************************)
(* C4                                                                      *)
(***************************************************************************)
\* C4: no package of the exclusion set is a key of any of the three mappings
\* handed to the comparison, nor a name of the difference set or the report.
C4_ExcludedNeverCompared ==
    (pc \in {"compare", "exit"} /\ raised = "none") =>
        \A e \in EXCLUDE_DEPS :
            /\ e \notin DOMAIN optional_deps
            /\ e \notin DOMAIN code_optional
            /\ e \notin DOMAIN setup_optional
            /\ e \notin {p[1] : p \in diff}
            /\ \A b \in BagToSet(out) : b.package # e

(***************************************************************************)
(* C5                                                                      *)
(***************************************************************************)
\* C5 as stated: a package named by an entry of "test" and by an entry of
\* "all" is no key of the mapping get_versions_from_setup returns, whatever
\* the two entries' versions.
C5_TestPackagesAbsent ==
    SetupReturned =>
        \A a \in AllEntries, t \in TestEntries :
            EntryName(a) = EntryName(t) => EntryKey(a) \notin DOMAIN setup_optional

\* C5 as amended: an entry of "all" that is textually equal to an entry of
\* "test" adds no key to the mapping get_versions_from_setup returns (the
\* key is absent unless another, kept entry has it), and every entry of
\* "all" that differs from every entry of "test", were it only in its
\* version, is kept: its key is in the mapping unless it is excluded.
C5_TextuallyEqualEntriesRemoved ==
    SetupReturned =>
        /\ \A e \in AllEntries \cap TestEntries :
              (\A k \in KeptEntries : EntryKey(k) # EntryKey(e))
                  => EntryKey(e) \notin DOMAIN setup_optional
        /\ \A k \in KeptEntries :
              EntryKey(k) \notin EXCLUDE_DEPS => EntryKey(k) \in DOMAIN setup_optional

\* the manifest lists an entry in both lists and the mapping lacks its key
C5_Witness ==
    /\ SetupReturned
    /\ \E e \in AllEntries \cap TestEntries : EntryKey(e) \notin DOMAIN setup_optional

(***************************************************************************)
(* C6                                                                      *)
(***************************************************************************)
\* C6 as stated: a package the CI file declares under its import name and the
\* table and the manifest declare under its import or distribution name,
\* with the same version, produces no difference.
C6_AliasInAllThree ==
    Compared =>
        \A i \in DOMAIN INSTALL_MAPPING, v \in Versions :
            (/\ Get(optional_deps, casefold(i), <<>>) = v
             /\ casefold(INSTALL_MAPPING[i]) \notin DOMAIN optional_deps
             /\ \E x \in {i, INSTALL_MAPPING[i]} : InFamily(CodeDecls, i) = {<<x, v>>}
             /\ \E y \in {i, INSTALL_MAPPING[i]} : InFamily(SetupDecls, i) = {<<y, v>>})
                => {p \in diff : p[1] \in Family(i)} = {}

\* C6 as amended: the table and the manifest pass every name through the
\* alias mapping, the CI file does not.  A package the table and the manifest
\* declare under its import name or its distribution name, with the same
\* version, is stored by both under its case-folded distribution name and
\* not under its import name, and produces no difference when the CI file
\* declares that version under the distribution name; declared in the CI
\* file under its import name, it is in the difference.
C6_AliasInCodeAndManifest ==
    Compared =>
        \A i \in DOMAIN INSTALL_MAPPING, v \in Versions :
            LET dist == casefold(INSTALL_MAPPING[i])
            IN  (/\ \E x \in {i, INSTALL_MAPPING[i]} : InFamily(CodeDecls, i) = {<<x, v>>}
                 /\ \E y \in {i, INSTALL_MAPPING[i]} : InFamily(SetupDecls, i) = {<<y, v>>})
                    => /\ <<dist, v>> \in Items(code_optional) \cap Items(setup_optional)
                       /\ casefold(i) \notin (DOMAIN code_optional) \cup (DOMAIN setup_optional)
                       /\ (/\ Get(optional_deps, dist, <<>>) = v
                           /\ casefold(i) \notin DOMAIN optional_deps)
                              => {p \in diff : p[1] \in Family(i)} = {}
                       /\ casefold(i) \in DOMAIN optional_deps
                              => \E p \in diff : p[1] = casefold(i)

\* the table declares the import name, the manifest and the CI file the
\* distribution name, and main exits 0
C6_Witness ==
    /\ Compared
    /\ status = 0
    /\ InFamily(CodeDecls, odf) = {<<odf, V1>>}
    /\ InFamily(SetupDecls, odf) = {<<odfpy, V1>>}
    /\ Get(optional_deps, odfpy, <<>>) = V1

(***************************************************************************)
(* C7                                                                      *)
(***************************************************************************)
\* C7: when the table and the manifest each declare one package, under names
\* that differ at most in letter case and with the same version, both store
\* it under one key with that version.
C7_CaseFoldedNamesAgree ==
    Compared =>
        \A c \in CodeDecls, s \in SetupDecls :
            (/\ CodeDecls = {c}
             /\ {d \in SetupDecls : d[1] # TZDATA} = {s}
             /\ casefold(c[1]) = casefold(s[1])
             /\ c[2] = s[2])
                => \E k \in (DOMAIN code_optional) \cap (DOMAIN setup_optional) :
                      code_optional[k] = c[2] /\ setup_optional[k] = c[2]

(***************************************************************************)
(* C8                                                                      *)
(***************************************************************************)
\* C8 as stated: a dependency line read after the optional marker is recorded
\* in the optional mapping, one read after the required marker and before
\* the optional marker in the required mapping, one read before any marker
\* in neither.
C8_ModesAnyOrder ==
    [][(ReadStep /\ DependencyLine(line')) =>
          IF seen_optional
          THEN Recorded(optional_deps, optional_deps', line')
                   /\ required_deps' = required_deps
          ELSE IF seen_required
          THEN Recorded(required_deps, required_deps', line')
                   /\ optional_deps' = optional_deps
          ELSE required_deps' = required_deps /\ optional_deps' = optional_deps]_vars

\* C8 as amended: a dependency line read after the required marker and
\* before any optional marker is recorded in the required mapping, one read
\* after both markers (in either order) in the optional mapping, and one
\* read before the required marker in neither, also when the optional marker
\* has been read.
C8_ModesRequiredFirst ==
    [][(ReadStep /\ DependencyLine(line')) =>
          IF seen_required /\ ~seen_optional
          THEN Recorded(required_deps, required_deps', line')
                   /\ optional_deps' = optional_deps
          ELSE IF seen_required /\ seen_optional
          THEN Recorded(optional_deps, optional_deps', line')
                   /\ required_deps' = required_deps
          ELSE required_deps' = required_deps /\ optional_deps' = optional_deps]_vars

\* both markers read, and the dependency line just read is in the optional
\* mapping and not in the required one
C8_Witness ==
    /\ pc = "ci"
    /\ seen_required
    /\ seen_optional
    /\ DependencyLine(line)
    /\ casefold(DeclaredName(line)) \in DOMAIN optional_deps
    /\ required_deps = EmptyDict

(***************************************************************************)
(* C9                                                                      *)
(***************************************************************************)
\* C9 as stated: a line read in dependency mode that has not the form
\* "- name==version" or "- name=version" raises: the run ends with no
\* report, no sys.exit and no new entry.
C9_MalformedLinesRaise ==
    [][(ReadStep /\ seen_required /\ ~IsMarkerOrPip(line') /\ strip(line') # <<>>
           /\ ~HasForm(line')) =>
          /\ raised' = "ValueError"
          /\ pc' = "exit"
          /\ status' = -1
          /\ out' = EmptyBag
          /\ required_deps' = required_deps
          /\ optional_deps' = optional_deps]_vars

\* C9 as amended: a line read in dependency mode raises exactly when the
\* delimiter it is split on ("==" if the line has one, else "=") does not
\* occur exactly once; the run then ends with no report, no sys.exit and no
\* new entry.  A line with exactly one such delimiter does not raise,
\* whatever else it holds: "- scipy>=1" is recorded as "scipy>" with version
\* "1", and "- scipy==1=2" as "scipy" with version "1=2".
C9_DelimiterCountDecides ==
    [][(ReadStep /\ seen_required /\ ~IsMarkerOrPip(line') /\ strip(line') # <<>>) =>
          IF DelimiterCount(line') # 1
          THEN /\ raised' = "ValueError"
               /\ pc' = "exit"
               /\ status' = -1
               /\ out' = EmptyBag
               /\ required_deps' = required_deps
               /\ optional_deps' = optional_deps
          ELSE /\ raised' = "none"
               /\ pc' = "ci"
               /\ DeclaredName(line') \notin EXCLUDE_DEPS =>
                     <<casefold(DeclaredName(line')), DeclaredVersion(line')>>
                         \in Items(required_deps') \cup Items(optional_deps')]_vars

\* the loop has raised on a line, and a line with ">=" has become an entry
C9_Witness ==
    /\ pc = "exit"
    /\ raised = "ValueError"
    /\ line # <<>>
    /\ status = -1
    /\ out = EmptyBag
    /\ casefold(scipy \o <<">">>) \in DOMAIN required_deps

(***************************************************************************)
(* C10                                                                     *)
(***************************************************************************)
\* C10: get_versions_from_code returns only if the excluded package is a
\* key of the table, and then leaves the table without it, so that a second
\* call raises KeyError; get_versions_from_setup returns only if the
\* excluded package is a key of the normalized manifest mapping; otherwise
\* either raises KeyError and the run ends before the comparison.
\* get_versions_from_ci never raises KeyError and returns whether or not the
\* file declares the excluded package.
C10_ExcludedMustBePresent ==
    [][/\ pc = "code" =>
            IF EXCLUDE_DEPS \subseteq Keys(VERSIONS)
            THEN /\ pc' = "setup"
                 /\ raised' = "none"
                 /\ EXCLUDE_DEPS \cap Keys(VERSIONS') = {}
                 /\ get_versions_from_code(VERSIONS').raised = "KeyError"
            ELSE /\ pc' = "exit"
                 /\ raised' = "KeyError"
                 /\ status' = -1
                 /\ out' = EmptyBag
       /\ pc = "setup" =>
            LET kept == {EntriesOf(all_value')[i] : i \in 1..Len(EntriesOf(all_value'))}
                            \ {EntriesOf(test_value')[i] : i \in 1..Len(EntriesOf(test_value'))}
            IN  IF \E e \in kept : Occurrences(strip(e), GE) # 1
                THEN raised' = "ValueError" /\ pc' = "exit"
                ELSE IF EXCLUDE_DEPS \subseteq {EntryKey(e) : e \in kept}
                THEN pc' = "compare" /\ raised' = "none"
                ELSE /\ pc' = "exit"
                     /\ raised' = "KeyError"
                     /\ status' = -1
                     /\ out' = EmptyBag
       /\ pc = "ci" => raised' # "KeyError"
       /\ (pc = "ci" /\ pc' = "code") => raised' = "none"]_vars

\* the table has lost the excluded package to the first call, and the
\* manifest, which lacks it, has ended the run with KeyError
C10_Witness ==
    /\ pc = "exit"
    /\ raised = "KeyError"
    /\ all_value # <<>>
    /\ EXCLUDE_DEPS \cap Keys(VERSIONS) = {}
    /\ get_versions_from_code(VERSIONS).raised = "KeyError"

============================================================================
